---- MODULE Spec2Model ----
(***************************************************************************)
(* The UDP test receiver of EPLive (test_receiver.py, function main).      *)
(*                                                                         *)
(* One session of the receiver is modelled statement by statement: pc is   *)
(* the statement main() executes next, exc the exception in flight.  The   *)
(* output file is modelled in three layers, as open(.., 'wb') gives them:  *)
(*   f_buf    bytes handed to f.write() and still in the writer's buffer,  *)
(*   os_file  bytes handed to the operating system (the file's content as  *)
(*            any reader sees it),                                         *)
(*   synced   how many bytes of os_file have reached stable storage; the   *)
(*            program never asks for that (no os.fsync), the operating     *)
(*            system writes back when it pleases.                          *)
(* A storage operation either takes effect completely or fails with        *)
(* OSError and writes nothing.  KeyboardInterrupt is delivered once, at    *)
(* any statement boundary before the shutdown path has begun.  The         *)
(* variables marked "history" record what has happened; the actions read   *)
(* them only to bound the exploration (MaxPackets, MaxVaried).             *)
(***************************************************************************)
EXTENDS Integers, Sequences, FiniteSets, TLC

VARIABLES
    pc,            \* statement of main() executed next
    exc,           \* exception in flight: "none", "OSError",
                   \* "KeyboardInterrupt"
    sock,          \* "unbound", "bound", "closed"
    packet_count,  \* line 25
    total_bytes,   \* line 24
    data,          \* payload of the last datagram received (line 37)
    addr,          \* sender of the last datagram received (line 37)
    f_state,       \* "none" (never opened), "open", "closed"
    f_buf,         \* bytes written and not yet flushed
    os_file,       \* bytes of the output file
    synced,        \* bytes of os_file on stable storage
    console,       \* lines printed, in order
    exit_code,     \* -1 while running, then the process's exit status
    arrived,       \* history: payloads returned by recvfrom, in order
    n_written,     \* history: datagrams for which f.write returned
    n_flushed,     \* history: datagrams for which f.flush returned
    n_done,        \* history: loop iterations completed (line 52 passed)
    intr_pc        \* history: statement the interrupt hit, or "none"

\* The session above is one process.  To compare sessions, two processes
\* running main() in the same working directory are modelled by the
\* statements that touch the directory: naming the file from the clock
\* (line 28), opening it (line 35), appending to it (lines 46-47).
VARIABLES
    now,           \* the wall clock, in ticks of 1/TicksPerSecond second
    s_pc,          \* per process: "setup", "open", "loop", "done"
    s_file,        \* per process: output_file (line 28)
    s_pos,         \* per process: position of f in its file
    dir            \* the working directory: per file name, does it exist and
                   \* what are its bytes

mvars == << pc, exc, sock, packet_count, total_bytes, data, addr, f_state,
            f_buf, os_file, synced, console, exit_code, arrived, n_written,
            n_flushed, n_done, intr_pc >>

svars == << now, s_pc, s_file, s_pos, dir >>

vars == << mvars, svars >>

\* ---------------------------------------------------------------- bounds
\* Datagrams a session receives at most.
MaxPackets == 201
\* The environment's choices (which datagram arrives, write-back, crash) are
\* explored for the first MaxVaried datagrams; later datagrams are Filler.
MaxVaried == 2

\* The clock is followed for MaxClock ticks, TicksPerSecond of them to the
\* second; a process appends at most MaxSessionBytes bytes.
MaxClock == 3
TicksPerSecond == 2
MaxSessionBytes == 2

\* ------------------------------------------------------------- constants
\* Line 50: a progress line every 100 packets.
ReportEvery == 100

NoAddr == "-"

\* Datagrams the network may deliver: payload bytes and sender.
Datagrams ==
    { [data |-> << >>,     addr |-> "10.0.0.1:5000"],
      [data |-> <<7>>,     addr |-> "10.0.0.1:5000"],
      [data |-> <<8, 9>>,  addr |-> "10.0.0.2:6000"] }

Filler == [data |-> <<7>>, addr |-> "10.0.0.1:5000"]

\* --------------------------------------------------------------- helpers
RECURSIVE Flatten(_)
\* b''.join(chunks): the bytes of a sequence of payloads, in order.
Flatten(chunks) ==
    IF chunks = << >> THEN << >>
    ELSE Head(chunks) \o Flatten(Tail(chunks))

RECURSIVE SumLen(_)
SumLen(chunks) ==
    IF chunks = << >> THEN 0
    ELSE Len(Head(chunks)) + SumLen(Tail(chunks))

Prefix(s, n) == SubSeq(s, 1, n)

\* Lines 51-52 and 58: total_bytes / (1024*1024) printed with ":.2f", as
\* hundredths of a megabyte (the division is exact in binary floating point,
\* the formatting rounds half to even).
FormatMB(n) ==
    LET q == (n * 100) \div (1024 * 1024)
        r == (n * 100) % (1024 * 1024)
    IN  IF 2 * r > 1024 * 1024 \/ (2 * r = 1024 * 1024 /\ q % 2 = 1)
        THEN q + 1 ELSE q

Line(kind, packets, mb, last, who) ==
    [kind |-> kind, packets |-> packets, mb |-> mb, last |-> last, who |-> who]

\* What is left of the output file after a power loss.
Surviving == Prefix(os_file, synced)

\* Statements of the receive loop (lines 37-52).
LoopPcs == {"recv", "announce", "count", "bytes", "write", "flush", "report"}

Running == pc \notin {"exited", "crashed", "killed"}

\* The two processes.
Sessions == {1, 2}

\* Line 28: datetime.now().strftime('%Y%m%d_%H%M%S') keeps the time down to
\* the second and drops the rest; the name is given as that second.
FileName(t) == t \div TicksPerSecond

FileNames == { FileName(t) : t \in 0 .. MaxClock }

\* The bytes of a file after one byte b is written at position pos (a file
\* opened with 'wb' writes at its own position; a gap reads as zeros).
WriteAt(bytes, pos, b) ==
    LET n == IF Len(bytes) > pos + 1 THEN Len(bytes) ELSE pos + 1
    IN  [i \in 1 .. n |-> IF i = pos + 1 THEN b
                          ELSE IF i <= Len(bytes) THEN bytes[i] ELSE 0]

\* ------------------------------------------------------------------ Init
Init ==
    /\ pc = "bind"
    /\ exc = "none"
    /\ sock = "unbound"
    /\ packet_count = 0
    /\ total_bytes = 0
    /\ data = << >>
    /\ addr = NoAddr
    /\ f_state = "none"
    /\ f_buf = << >>
    /\ os_file = << >>
    /\ synced = 0
    /\ console = << >>
    /\ exit_code = -1
    /\ arrived = << >>
    /\ n_written = 0
    /\ n_flushed = 0
    /\ n_done = 0
    /\ intr_pc = "none"
    /\ now = 0
    /\ s_pc = [s \in Sessions |-> "setup"]
    /\ s_file = [s \in Sessions |-> 0]
    /\ s_pos = [s \in Sessions |-> 0]
    /\ dir = [n \in FileNames |-> [exists |-> FALSE, bytes |-> << >>]]

\* --------------------------------------------------------------- startup
\* Lines 16-17: socket() and bind() succeed.
Bind ==
    /\ pc = "bind"
    /\ sock' = "bound"
    /\ pc' = "setup"
    /\ UNCHANGED << exc, packet_count, total_bytes, data, addr, f_state,
                    f_buf, os_file, synced, console, exit_code, arrived,
                    n_written, n_flushed, n_done, intr_pc >>
    /\ UNCHANGED svars

\* Line 17: bind() raises OSError (port in use).  The statement is outside the
\* try: the exception leaves main(), the interpreter exits with status 1.
BindFail ==
    /\ pc = "bind"
    /\ exc' = "OSError"
    /\ pc' = "exited"
    /\ exit_code' = 1
    /\ UNCHANGED << sock, packet_count, total_bytes, data, addr, f_state,
                    f_buf, os_file, synced, console, arrived, n_written,
                    n_flushed, n_done, intr_pc >>
    /\ UNCHANGED svars

\* Lines 19-32: banner, counters set to zero, output file name.
Setup ==
    /\ pc = "setup"
    /\ console' = Append(console, Line("banner", 0, 0, 0, NoAddr))
    /\ total_bytes' = 0
    /\ packet_count' = 0
    /\ pc' = "open"
    /\ UNCHANGED << exc, sock, data, addr, f_state, f_buf, os_file, synced,
                    exit_code, arrived, n_written, n_flushed, n_done, intr_pc
                    >>
    /\ UNCHANGED svars

\* Line 35: open(output_file, 'wb') creates the (empty) file.
Open ==
    /\ pc = "open"
    /\ f_state' = "open"
    /\ f_buf' = << >>
    /\ os_file' = << >>
    /\ synced' = 0
    /\ pc' = "recv"
    /\ UNCHANGED << exc, sock, packet_count, total_bytes, data, addr, console,
                    exit_code, arrived, n_written, n_flushed, n_done, intr_pc
                    >>
    /\ UNCHANGED svars

\* Mutant of OpenFail: a bare "except:" that also catches OSError.
OpenFailCaught ==
    /\ pc = "open"
    /\ exc' = "OSError"
    /\ pc' = "handler"
    /\ UNCHANGED << sock, packet_count, total_bytes, data, addr, f_state,
                    f_buf, os_file, synced, console, exit_code, arrived,
                    n_written, n_flushed, n_done, intr_pc >>
    /\ UNCHANGED svars

\* Line 35: open() raises OSError; not a KeyboardInterrupt, so only the
\* finally clause runs.
OpenFail ==
    /\ pc = "open"
    /\ exc' = "OSError"
    /\ pc' = "finally"
    /\ UNCHANGED << sock, packet_count, total_bytes, data, addr, f_state,
                    f_buf, os_file, synced, console, exit_code, arrived,
                    n_written, n_flushed, n_done, intr_pc >>
    /\ UNCHANGED svars

\* ---------------------------------------------------------- receive loop
\* The datagrams the network may deliver next.
NextDatagrams ==
    IF Len(arrived) < MaxVaried THEN Datagrams ELSE {Filler}

\* Mutant of Recv: an empty datagram is taken for the end of the stream
\* ("if not data: break").
RecvStopsOnEmpty ==
    /\ pc = "recv"
    /\ exc = "none"
    /\ Len(arrived) < MaxPackets
    /\ \E d \in NextDatagrams :
        /\ data' = d.data
        /\ addr' = d.addr
        /\ arrived' = Append(arrived, d.data)
        /\ pc' = IF d.data = << >> THEN "with_exit" ELSE "announce"
    /\ UNCHANGED << exc, sock, packet_count, total_bytes, f_state, f_buf,
                    os_file, synced, console, exit_code, n_written, n_flushed,
                    n_done, intr_pc >>
    /\ UNCHANGED svars

\* Line 37: recvfrom returns the next datagram and its sender.
Recv ==
    /\ pc = "recv"
    /\ exc = "none"
    /\ Len(arrived) < MaxPackets
    /\ \E d \in NextDatagrams :
        /\ data' = d.data
        /\ addr' = d.addr
        /\ arrived' = Append(arrived, d.data)
    /\ pc' = "announce"
    /\ UNCHANGED << exc, sock, packet_count, total_bytes, f_state, f_buf,
                    os_file, synced, console, exit_code, n_written, n_flushed,
                    n_done, intr_pc >>
    /\ UNCHANGED svars

\* Mutant of RecvFail: the error ends the process at once, with no with
\* statement and no finally clause on the way.
RecvFailNoCleanup ==
    /\ pc = "recv"
    /\ exc = "none"
    /\ exc' = "OSError"
    /\ pc' = "exited"
    /\ exit_code' = 1
    /\ UNCHANGED << sock, packet_count, total_bytes, data, addr, f_state,
                    f_buf, os_file, synced, console, arrived, n_written,
                    n_flushed, n_done, intr_pc >>
    /\ UNCHANGED svars

\* Line 37: recvfrom raises OSError; the with statement closes the file on
\* the way out.
RecvFail ==
    /\ pc = "recv"
    /\ exc = "none"
    /\ exc' = "OSError"
    /\ pc' = "with_exit"
    /\ UNCHANGED << sock, packet_count, total_bytes, data, addr, f_state,
                    f_buf, os_file, synced, console, exit_code, arrived,
                    n_written, n_flushed, n_done, intr_pc >>
    /\ UNCHANGED svars

\* Mutant of Announce: the test is made as if the packet were counted already.
AnnounceOffByOne ==
    /\ pc = "announce"
    /\ console' = IF packet_count <= 1
                  THEN Append(console, Line("connected", 0, 0, 0, addr))
                  ELSE console
    /\ pc' = "count"
    /\ UNCHANGED << exc, sock, packet_count, total_bytes, data, addr, f_state,
                    f_buf, os_file, synced, exit_code, arrived, n_written,
                    n_flushed, n_done, intr_pc >>
    /\ UNCHANGED svars

\* Lines 39-40: the sender is printed when no packet has been counted yet.
Announce ==
    /\ pc = "announce"
    /\ console' = IF packet_count = 0
                  THEN Append(console, Line("connected", 0, 0, 0, addr))
                  ELSE console
    /\ pc' = "count"
    /\ UNCHANGED << exc, sock, packet_count, total_bytes, data, addr, f_state,
                    f_buf, os_file, synced, exit_code, arrived, n_written,
                    n_flushed, n_done, intr_pc >>
    /\ UNCHANGED svars

\* Line 42: packet_count += 1.
Count ==
    /\ pc = "count"
    /\ packet_count' = packet_count + 1
    /\ pc' = "bytes"
    /\ UNCHANGED << exc, sock, total_bytes, data, addr, f_state, f_buf,
                    os_file, synced, console, exit_code, arrived, n_written,
                    n_flushed, n_done, intr_pc >>
    /\ UNCHANGED svars

\* Line 43: total_bytes += len(data).
Bytes ==
    /\ pc = "bytes"
    /\ total_bytes' = total_bytes + Len(data)
    /\ pc' = "write"
    /\ UNCHANGED << exc, sock, packet_count, data, addr, f_state, f_buf,
                    os_file, synced, console, exit_code, arrived, n_written,
                    n_flushed, n_done, intr_pc >>
    /\ UNCHANGED svars

\* Line 46: f.write(data) puts the payload at the end of the writer's buffer.
Write ==
    /\ pc = "write"
    /\ f_buf' = f_buf \o data
    /\ n_written' = n_written + 1
    /\ pc' = "flush"
    /\ UNCHANGED << exc, sock, packet_count, total_bytes, data, addr, f_state,
                    os_file, synced, console, exit_code, arrived, n_flushed,
                    n_done, intr_pc >>
    /\ UNCHANGED svars

\* Mutant of WriteFail: the file is opened without a with statement, nothing
\* closes it when the write fails.
WriteFailNoClose ==
    /\ pc = "write"
    /\ exc' = "OSError"
    /\ pc' = "finally"
    /\ UNCHANGED << sock, packet_count, total_bytes, data, addr, f_state,
                    f_buf, os_file, synced, console, exit_code, arrived,
                    n_written, n_flushed, n_done, intr_pc >>
    /\ UNCHANGED svars

\* Line 46: f.write(data) raises OSError; nothing was written.
WriteFail ==
    /\ pc = "write"
    /\ exc' = "OSError"
    /\ pc' = "with_exit"
    /\ UNCHANGED << sock, packet_count, total_bytes, data, addr, f_state,
                    f_buf, os_file, synced, console, exit_code, arrived,
                    n_written, n_flushed, n_done, intr_pc >>
    /\ UNCHANGED svars

\* Mutant of Flush: the buffer is written out and not emptied.
FlushKeepsBuffer ==
    /\ pc = "flush"
    /\ os_file' = os_file \o f_buf
    /\ n_flushed' = n_flushed + 1
    /\ pc' = "report"
    /\ UNCHANGED << exc, sock, packet_count, total_bytes, data, addr, f_state,
                    f_buf, synced, console, exit_code, arrived, n_written,
                    n_done, intr_pc >>
    /\ UNCHANGED svars

\* Line 47: f.flush() hands the buffered bytes to the operating system.
Flush ==
    /\ pc = "flush"
    /\ os_file' = os_file \o f_buf
    /\ f_buf' = << >>
    /\ n_flushed' = n_flushed + 1
    /\ pc' = "report"
    /\ UNCHANGED << exc, sock, packet_count, total_bytes, data, addr, f_state,
                    synced, console, exit_code, arrived, n_written, n_done,
                    intr_pc >>
    /\ UNCHANGED svars

\* Line 47: f.flush() raises OSError; the bytes stay in the buffer.
FlushFail ==
    /\ pc = "flush"
    /\ exc' = "OSError"
    /\ pc' = "with_exit"
    /\ UNCHANGED << sock, packet_count, total_bytes, data, addr, f_state,
                    f_buf, os_file, synced, console, exit_code, arrived,
                    n_written, n_flushed, n_done, intr_pc >>
    /\ UNCHANGED svars

\* Mutant of Report: the cadence is tested one packet late.
ReportOffByOne ==
    /\ pc = "report"
    /\ console' = IF (packet_count - 1) % ReportEvery = 0
                  THEN Append(console, Line("progress", packet_count,
                                            FormatMB(total_bytes), Len(data),
                                            NoAddr))
                  ELSE console
    /\ n_done' = n_done + 1
    /\ pc' = "recv"
    /\ UNCHANGED << exc, sock, packet_count, total_bytes, data, addr, f_state,
                    f_buf, os_file, synced, exit_code, arrived, n_written,
                    n_flushed, intr_pc >>
    /\ UNCHANGED svars

\* Lines 50-52: the progress line, then back to the top of the loop.
Report ==
    /\ pc = "report"
    /\ console' = IF packet_count % ReportEvery = 0
                  THEN Append(console, Line("progress", packet_count,
                                            FormatMB(total_bytes), Len(data),
                                            NoAddr))
                  ELSE console
    /\ n_done' = n_done + 1
    /\ pc' = "recv"
    /\ UNCHANGED << exc, sock, packet_count, total_bytes, data, addr, f_state,
                    f_buf, os_file, synced, exit_code, arrived, n_written,
                    n_flushed, intr_pc >>
    /\ UNCHANGED svars

\* -------------------------------------------------------------- shutdown
\* Mutant of Interrupt: no except clause, the interrupt is never caught.
InterruptUncaught ==
    /\ intr_pc = "none"
    /\ exc = "none"
    /\ pc \in {"bind", "setup", "open"} \cup LoopPcs
    /\ intr_pc' = pc
    /\ exc' = "KeyboardInterrupt"
    /\ pc' = CASE pc \in {"bind", "setup"} -> "exited"
               [] OTHER -> "finally"
    /\ exit_code' = IF pc \in {"bind", "setup"} THEN 130 ELSE exit_code
    /\ UNCHANGED << sock, packet_count, total_bytes, data, addr, f_state,
                    f_buf, os_file, synced, console, arrived, n_written,
                    n_flushed, n_done >>
    /\ UNCHANGED svars

\* KeyboardInterrupt is raised at the statement about to run.  Before the try
\* (lines 16-32) nothing catches it: the interpreter exits with status 130.
\* At line 35 the file is not open yet and the handler runs at once.  Inside
\* the loop the with statement closes the file first.
Interrupt ==
    /\ intr_pc = "none"
    /\ exc = "none"
    /\ pc \in {"bind", "setup", "open"} \cup LoopPcs
    /\ intr_pc' = pc
    /\ exc' = "KeyboardInterrupt"
    /\ pc' = CASE pc \in {"bind", "setup"} -> "exited"
               [] pc = "open" -> "handler"
               [] OTHER -> "with_exit"
    /\ exit_code' = IF pc \in {"bind", "setup"} THEN 130 ELSE exit_code
    /\ UNCHANGED << sock, packet_count, total_bytes, data, addr, f_state,
                    f_buf, os_file, synced, console, arrived, n_written,
                    n_flushed, n_done >>
    /\ UNCHANGED svars

\* Mutant of WithExit: a bare "except:" catches whatever leaves the with
\* block.
WithExitCatchAll ==
    /\ pc = "with_exit"
    /\ os_file' = os_file \o f_buf
    /\ f_buf' = << >>
    /\ f_state' = "closed"
    /\ pc' = "handler"
    /\ UNCHANGED << exc, sock, packet_count, total_bytes, data, addr, synced,
                    console, exit_code, arrived, n_written, n_flushed, n_done,
                    intr_pc >>
    /\ UNCHANGED svars

\* Mutant of WithExit: the file is released without flushing the buffer.
WithExitNoFlush ==
    /\ pc = "with_exit"
    /\ f_buf' = << >>
    /\ f_state' = "closed"
    /\ pc' = IF exc = "KeyboardInterrupt" THEN "handler" ELSE "finally"
    /\ UNCHANGED << exc, sock, packet_count, total_bytes, data, addr, os_file,
                    synced, console, exit_code, arrived, n_written, n_flushed,
                    n_done, intr_pc >>
    /\ UNCHANGED svars

\* Line 35, leaving the with block: f.close() flushes what is buffered and
\* releases the file; the exception in flight continues to the except clause
\* (KeyboardInterrupt) or past it (anything else).
WithExit ==
    /\ pc = "with_exit"
    /\ os_file' = os_file \o f_buf
    /\ f_buf' = << >>
    /\ f_state' = "closed"
    /\ pc' = IF exc = "KeyboardInterrupt" THEN "handler" ELSE "finally"
    /\ UNCHANGED << exc, sock, packet_count, total_bytes, data, addr, synced,
                    console, exit_code, arrived, n_written, n_flushed, n_done,
                    intr_pc >>
    /\ UNCHANGED svars

\* Line 35, leaving the with block: the flush done by f.close() raises
\* OSError.  The file is released, the buffered bytes are gone and the OSError
\* replaces the exception in flight, so the except clause is passed over.
WithExitFail ==
    /\ pc = "with_exit"
    /\ f_buf # << >>
    /\ f_buf' = << >>
    /\ f_state' = "closed"
    /\ exc' = "OSError"
    /\ pc' = "finally"
    /\ UNCHANGED << sock, packet_count, total_bytes, data, addr, os_file,
                    synced, console, exit_code, arrived, n_written, n_flushed,
                    n_done, intr_pc >>
    /\ UNCHANGED svars

\* Lines 54-64: the final report and the playback hint.
Handler ==
    /\ pc = "handler"
    /\ console' = Append(console, Line("final", packet_count,
                                       FormatMB(total_bytes), 0, NoAddr))
    /\ exc' = "none"
    /\ pc' = "finally"
    /\ UNCHANGED << sock, packet_count, total_bytes, data, addr, f_state,
                    f_buf, os_file, synced, exit_code, arrived, n_written,
                    n_flushed, n_done, intr_pc >>
    /\ UNCHANGED svars

\* Mutant of Finally: the socket is closed only when no exception is in
\* flight (sock.close() after the try instead of in a finally clause).
FinallyAfterTry ==
    /\ pc = "finally"
    /\ sock' = IF exc = "none" THEN "closed" ELSE sock
    /\ exit_code' = IF exc = "none" THEN 0 ELSE 1
    /\ pc' = "exited"
    /\ UNCHANGED << exc, packet_count, total_bytes, data, addr, f_state,
                    f_buf, os_file, synced, console, arrived, n_written,
                    n_flushed, n_done, intr_pc >>
    /\ UNCHANGED svars

\* Lines 66-67: sock.close(); then main() returns (status 0) or the uncaught
\* exception ends the interpreter (status 1).
Finally ==
    /\ pc = "finally"
    /\ sock' = "closed"
    /\ exit_code' = IF exc = "none" THEN 0 ELSE 1
    /\ pc' = "exited"
    /\ UNCHANGED << exc, packet_count, total_bytes, data, addr, f_state,
                    f_buf, os_file, synced, console, arrived, n_written,
                    n_flushed, n_done, intr_pc >>
    /\ UNCHANGED svars

\* ----------------------------------------------------------- environment
\* The operating system writes the file's dirty pages back to stable storage.
OSWriteback ==
    /\ Running
    /\ synced < Len(os_file)
    /\ Len(arrived) <= MaxVaried
    /\ synced' = Len(os_file)
    /\ UNCHANGED << pc, exc, sock, packet_count, total_bytes, data, addr,
                    f_state, f_buf, os_file, console, exit_code, arrived,
                    n_written, n_flushed, n_done, intr_pc >>
    /\ UNCHANGED svars

\* The machine loses power: what was not written back is lost (Surviving).
PowerLoss ==
    /\ Running
    /\ f_state = "open"
    /\ Len(arrived) <= MaxVaried
    /\ pc' = "crashed"
    /\ UNCHANGED << exc, sock, packet_count, total_bytes, data, addr, f_state,
                    f_buf, os_file, synced, console, exit_code, arrived,
                    n_written, n_flushed, n_done, intr_pc >>
    /\ UNCHANGED svars

\* The process is killed (SIGKILL): the writer's buffer dies with it, the
\* bytes handed to the operating system stay in the file (os_file).
Kill ==
    /\ Running
    /\ f_state = "open"
    /\ Len(arrived) <= MaxVaried
    /\ pc' = "killed"
    /\ UNCHANGED << exc, sock, packet_count, total_bytes, data, addr, f_state,
                    f_buf, os_file, synced, console, exit_code, arrived,
                    n_written, n_flushed, n_done, intr_pc >>
    /\ UNCHANGED svars

\* ------------------------------------------------------------- lifecycle
\* The lifecycle state main() is in.  Starting is lines 16-35, with the
\* finally clause reached from a failed open; Receiving is the loop;
\* ShuttingDown is leaving the with block, the except clause and the finally
\* clause; Terminated is after main().  A killed process and a machine
\* without power are in none of them.
Phase ==
    CASE pc \in {"bind", "setup", "open"} -> "Starting"
      [] pc \in LoopPcs -> "Receiving"
      [] pc \in {"with_exit", "handler"} -> "ShuttingDown"
      [] pc = "finally" -> IF f_state = "none" /\ exc = "OSError"
                           THEN "Starting" ELSE "ShuttingDown"
      [] pc = "exited" -> "Terminated"
      [] OTHER -> "Dead"

\* ------------------------------------------------------- specifications
Next ==
    \/ Bind \/ BindFail \/ Setup \/ Open \/ OpenFail
    \/ Recv \/ RecvFail \/ Announce \/ Count \/ Bytes
    \/ Write \/ WriteFail \/ Flush \/ FlushFail \/ Report
    \/ Interrupt \/ WithExit \/ WithExitFail \/ Handler \/ Finally
    \/ OSWriteback \/ PowerLoss \/ Kill

Spec == Init /\ [][Next]_vars

\* -------------------------------------------------------- two processes
\* Time passes.
Tick ==
    /\ now < MaxClock
    /\ now' = now + 1
    /\ UNCHANGED << s_pc, s_file, s_pos, dir >>
    /\ UNCHANGED mvars

\* Line 28: the process names its output file from the clock.
SessionName(s) ==
    /\ s_pc[s] = "setup"
    /\ s_file' = [s_file EXCEPT ![s] = FileName(now)]
    /\ s_pc' = [s_pc EXCEPT ![s] = "open"]
    /\ UNCHANGED << now, s_pos, dir >>
    /\ UNCHANGED mvars

\* Line 35: open(output_file, 'wb') creates the file, or empties the file of
\* that name that is already there.
SessionOpen(s) ==
    /\ s_pc[s] = "open"
    /\ dir' = [dir EXCEPT ![s_file[s]] = [exists |-> TRUE, bytes |-> << >>]]
    /\ s_pos' = [s_pos EXCEPT ![s] = 0]
    /\ s_pc' = [s_pc EXCEPT ![s] = "loop"]
    /\ UNCHANGED << now, s_file >>
    /\ UNCHANGED mvars

\* Lines 46-47: the process appends one byte of its stream (its own number).
SessionAppend(s) ==
    /\ s_pc[s] = "loop"
    /\ s_pos[s] < MaxSessionBytes
    /\ dir' = [dir EXCEPT ![s_file[s]].bytes = WriteAt(@, s_pos[s], s)]
    /\ s_pos' = [s_pos EXCEPT ![s] = @ + 1]
    /\ UNCHANGED << now, s_pc, s_file >>
    /\ UNCHANGED mvars

\* Lines 54-67: the process is interrupted and ends.
SessionEnd(s) ==
    /\ s_pc[s] = "loop"
    /\ s_pc' = [s_pc EXCEPT ![s] = "done"]
    /\ UNCHANGED << now, s_file, s_pos, dir >>
    /\ UNCHANGED mvars

SessionsNext ==
    \/ Tick
    \/ \E s \in Sessions :
        \/ SessionName(s)
        \/ SessionOpen(s)
        \/ SessionAppend(s)
        \/ SessionEnd(s)

SessionsSpec == Init /\ [][SessionsNext]_vars

\* The interpreter runs the statements of the shutdown path one after the
\* other: once the with block is being left, the close, the except clause and
\* the finally clause are not postponed forever.
FairSpec ==
    /\ Spec
    /\ WF_vars(WithExit \/ WithExitFail)
    /\ WF_vars(Handler)
    /\ WF_vars(Finally)

\* ---------------------------------------------------------------- claims
IsPrefix(s, t) == Len(s) <= Len(t) /\ Prefix(t, Len(s)) = s

\* Positions of the console lines of one kind.
Lines(kind) == { i \in DOMAIN console : console[i].kind = kind }

\* The session ended through an interrupt taken inside the receive loop.
InterruptedInLoop == intr_pc \in LoopPcs

\* C1: after N datagrams were received and an interrupt shut the session down
\* gracefully, the artifact is as long as the N payloads together and the
\* final report shows N packets.
C1_ShutdownTotals ==
    (pc = "exited" /\ InterruptedInLoop /\ exit_code = 0) =>
        /\ Len(os_file) = SumLen(arrived)
        /\ \A i \in Lines("final") : console[i].packets = Len(arrived)

\* C2: the artifact is the payloads of the appended datagrams in arrival
\* order, nothing reordered, duplicated, dropped or altered; and when the next
\* receive is issued every datagram received before is appended and counted.
C2_ArrivalOrder ==
    /\ f_state = "open" =>
        /\ os_file = Flatten(Prefix(arrived, n_flushed))
        /\ f_buf = Flatten(SubSeq(arrived, n_flushed + 1, n_written))
    /\ f_state = "closed" =>
        \E k \in n_flushed .. n_written : os_file = Flatten(Prefix(arrived, k))
    /\ pc = "recv" =>
        /\ n_written = Len(arrived)
        /\ n_flushed = Len(arrived)
        /\ n_done = Len(arrived)
        /\ packet_count = Len(arrived)
        /\ f_buf = << >>

C2_Witness ==
    /\ pc = "recv"
    /\ arrived = << <<8, 9>>, << >>, <<7>> >>
    /\ os_file = <<8, 9, 7>>

\* C3: in every state total_bytes is the summed length of the datagrams
\* appended so far and packet_count the number of appends performed.
C3_CountersMatchAppends ==
    /\ packet_count = n_flushed
    /\ total_bytes = SumLen(Prefix(arrived, n_flushed))

\* C4: the statistics are updated only after the datagram's append (write and
\* flush) has succeeded, so the counters never include a datagram that is not
\* appended.
C4_RecordAfterAppend ==
    /\ packet_count <= n_flushed
    /\ total_bytes <= SumLen(Prefix(arrived, n_flushed))

C6_DurableAfterAppend ==
    LET appended == Flatten(Prefix(arrived, n_flushed)) IN
    /\ pc = "crashed" => IsPrefix(appended, Surviving)
    /\ pc = "killed" => IsPrefix(appended, os_file)

\* C7: the progress lines printed are exactly one for each completed packet
\* whose ordinal is a positive multiple of 100, in order, none twice.
C7_ProgressCadence ==
    /\ { console[i].packets : i \in Lines("progress") }
         = { k \in 1 .. n_done : k % ReportEvery = 0 }
    /\ \A i, j \in Lines("progress") :
         i < j => console[i].packets < console[j].packets

C7_Witness ==
    /\ pc = "recv"
    /\ packet_count = 2 * ReportEvery + 1
    /\ Cardinality(Lines("progress")) = 2

\* C8: a progress line or final report showing k packets shows the summed
\* length of the first k datagrams, and those k datagrams are in the artifact.
C8_ReportedCounters ==
    \A i \in Lines("progress") \cup Lines("final") :
        LET k == console[i].packets IN
        /\ k <= Len(arrived)
        /\ console[i].mb = FormatMB(SumLen(Prefix(arrived, k)))
        /\ IsPrefix(Flatten(Prefix(arrived, k)), os_file)

\* C9: a failed bind ends the run with a non-zero status and no artifact; a
\* failed open ends it with a non-zero status, no receive, counters at zero
\* and no final report.
C9_StartupFailure ==
    /\ (exc = "OSError" /\ sock = "unbound") =>
        /\ pc = "exited" /\ exit_code # 0
        /\ f_state = "none"
        /\ arrived = << >>
    /\ (exc = "OSError" /\ sock # "unbound" /\ f_state = "none") =>
        /\ pc \in {"finally", "exited"}
        /\ pc = "exited" => exit_code # 0
        /\ arrived = << >>
        /\ packet_count = 0 /\ total_bytes = 0
        /\ Lines("final") = {}

C9_Witness ==
    /\ pc = "exited"
    /\ exc = "OSError"
    /\ f_state = "none"
    /\ sock = "closed"
    /\ exit_code = 1

LifecycleStep(edges) ==
    /\ Phase # "Terminated"
    /\ \/ Phase' = Phase
       \/ Phase' = "Dead"
       \/ << Phase, Phase' >> \in edges

SpecEdges ==
    { << "Starting", "Receiving" >>, << "Receiving", "ShuttingDown" >>,
      << "ShuttingDown", "Terminated" >>, << "Starting", "Terminated" >> }

\* C11 (as claimed): every run moves only along Starting -> Receiving ->
\* ShuttingDown -> Terminated or Starting -> Terminated, and nothing happens
\* once Terminated.
C11_Lifecycle == [][LifecycleStep(SpecEdges)]_vars

\* C11 (amended): as claimed, with one more edge: an interrupt that arrives
\* while the artifact is being opened (line 35, inside the try) takes
\* Starting to ShuttingDown, Receiving being skipped.
C11_LifecycleWithEarlyInterrupt ==
    [][/\ LifecycleStep(SpecEdges \cup { << "Starting", "ShuttingDown" >> })
       /\ (Phase = "Starting" /\ Phase' = "ShuttingDown") => intr_pc' = "open"
      ]_vars

C11_Witness ==
    /\ pc = "exited"
    /\ intr_pc = "recv"
    /\ n_done = 1
    /\ exit_code = 0

\* The loop is left in this step.
LeavesLoop == pc \in LoopPcs /\ pc' \notin LoopPcs

\* While blocked in recvfrom, this step changes nothing of the session but
\* what the operating system does to the file on its own.
StaysBlocked ==
    UNCHANGED << pc, exc, sock, packet_count, total_bytes, data, addr, f_state,
                 f_buf, os_file, console, exit_code, arrived, n_written,
                 n_flushed, n_done, intr_pc >>

\* A datagram returned by recvfrom in this step enters the loop body, whatever
\* its payload and sender.
NoDatagramRejected ==
    arrived' # arrived =>
        /\ pc = "recv" /\ pc' = "announce"
        /\ arrived' = Append(arrived, data')
        /\ n_written = Len(arrived) /\ n_flushed = Len(arrived)

\* C12 (as claimed): the loop is left only on an interrupt; no datagram ends
\* the loop or is skipped; without interrupt and datagram the session stays
\* blocked in recvfrom, artifact and counters unchanged.
C12_OnlyInterruptLeaves ==
    [][/\ LeavesLoop => (intr_pc' # "none" \/ pc' \in {"crashed", "killed"})
       /\ NoDatagramRejected
       /\ pc = "recv" =>
            \/ StaysBlocked
            \/ arrived' # arrived
            \/ intr_pc' # "none"
            \/ pc' \in {"crashed", "killed"}
      ]_vars

\* C12 (amended): the loop is left only on an interrupt or on a failure
\* (OSError) of recvfrom, write or flush; the rest as claimed.
C12_OnlyInterruptOrFailureLeaves ==
    [][/\ LeavesLoop =>
            \/ intr_pc' # "none"
            \/ exc' = "OSError" /\ pc \in {"recv", "write", "flush"}
            \/ pc' \in {"crashed", "killed"}
       /\ NoDatagramRejected
       /\ pc = "recv" =>
            \/ StaysBlocked
            \/ arrived' # arrived
            \/ intr_pc' # "none"
            \/ exc' = "OSError"
            \/ pc' \in {"crashed", "killed"}
      ]_vars

C12_Witness ==
    /\ pc = "recv"
    /\ arrived = << << >>, <<8, 9>> >>
    /\ packet_count = 2
    /\ os_file = <<8, 9>>
    /\ intr_pc = "none"

\* C13: a session that opened its artifact and has ended, by interrupt or by
\* a failure of recvfrom, write or flush, has closed the artifact, which holds
\* every datagram appended before the end.
C13_ClosedAtExit ==
    (pc = "exited" /\ f_state # "none") =>
        /\ f_state = "closed"
        /\ f_buf = << >>
        /\ IsPrefix(Flatten(Prefix(arrived, n_flushed)), os_file)

C13_Witness ==
    /\ pc = "exited"
    /\ intr_pc = "none"
    /\ exc = "OSError"
    /\ n_flushed = 1
    /\ n_written = 2
    /\ f_state = "closed"
    /\ arrived = << <<8, 9>>, <<7>> >>
    /\ os_file = <<8, 9>>

\* C15: the sender is announced at most once, in the iteration of the first
\* datagram, with that datagram's sender and before it is written; from the
\* moment a packet is counted there is exactly one announcement, whatever the
\* senders of later datagrams; every datagram is taken whatever its sender.
C15_AnnounceOnce ==
    [][/\ (console' # console /\ console'[Len(console')].kind = "connected") =>
            /\ Len(arrived) = 1
            /\ console'[Len(console')].who = addr
            /\ packet_count = 0
            /\ n_written = 0
       /\ LET announced == Cardinality({ i \in DOMAIN console' :
                                  console'[i].kind = "connected" })
          IN  /\ announced <= 1
              /\ packet_count' >= 1 => announced = 1
       /\ NoDatagramRejected
      ]_vars

C15_Witness ==
    /\ pc = "recv"
    /\ arrived = << <<7>>, <<8, 9>> >>
    /\ addr = "10.0.0.2:6000"
    /\ Cardinality(Lines("connected")) = 1
    /\ \A i \in Lines("connected") : console[i].who = "10.0.0.1:5000"

TryEntered == sock # "unbound" /\ intr_pc \notin {"bind", "setup"}

\* C17: every run that ends after the try statement was entered has closed
\* the socket, and the socket is never closed while the artifact is open.
C17_SocketClosedLast ==
    /\ (pc = "exited" /\ TryEntered) => sock = "closed"
    /\ sock = "closed" => (f_state # "open" /\ pc = "exited")

C17_Witness ==
    /\ pc = "exited"
    /\ sock = "closed"
    /\ f_state = "closed"
    /\ intr_pc = "report"
    /\ exit_code = 0

\* C14: two sessions in one working directory have different artifact names,
\* and the artifact of a session holds exactly what that session appended.
C14_DistinctArtifacts ==
    /\ (s_pc[1] # "setup" /\ s_pc[2] # "setup") => s_file[1] # s_file[2]
    /\ \A s \in Sessions :
         s_pc[s] \in {"loop", "done"} =>
            /\ dir[s_file[s]].exists
            /\ dir[s_file[s]].bytes = [i \in 1 .. s_pos[s] |-> s]

====
